---------------------------- MODULE Spec2Model ----------------------------
(***************************************************************************)
(* A model of jl-proc: the line classifier (LogEntryIterator), the record  *)
(* decoder (LogEntry), the stream formatter (LogEntryFormatter), the run  *)
(* aggregator (LogEntryProcessor::process_entries) and the value layout    *)
(* engine (ValuePrinter).                                                  *)
(*                                                                         *)
(* Text is modelled as sequences of byte values, a line of input as the    *)
(* sequence of its JSON tokens, Option<T> as a sequence of length 0 or 1.  *)
(***************************************************************************)
EXTENDS Integers, Sequences, FiniteSets, TLC

(***************************************************************************)
(* Bounds of the model.                                                    *)
(***************************************************************************)
\* the most items the line source yields in one run
MaxLines == 5
\* the most calls of next() a free-standing caller of the iterator makes
MaxCalls == 4

(***************************************************************************)
(* Text.                                                                   *)
(***************************************************************************)
\* "2024-03-15T12:34:56.123Z", the canonical 24-byte timestamp
CanonicalTs ==
    <<50, 48, 50, 52, 45, 48, 51, 45, 49, 53, 84, 49,
      50, 58, 51, 52, 58, 53, 54, 46, 49, 50, 51, 90>>
\* "2024-03-15", a timestamp shorter than the slice timestamp_short takes
ShortTs == <<50, 48, 50, 52, 45, 48, 51, 45, 49, 53>>
\* "ST", a message that starts with the session prefix "S"
MsgStart == <<83, 84>>
\* "hi", a message that does not
MsgOther == <<104, 105>>
\* "S", the session-start prefix of the runs that configure one
PrefixS == <<83>>

None == <<>>
Some(x) == <<x>>

\* str::is_char_boundary: offset i (0-based) of s is the start of a character
\* or the end of s; the bytes 128..191 are UTF-8 continuation bytes.
is_char_boundary(s, i) ==
    \/ i = 0
    \/ i = Len(s)
    \/ i < Len(s) /\ ~(s[i + 1] >= 128 /\ s[i + 1] <= 191)

\* &s[from..to]: the bytes at offsets from..to-1, or a panic (None) when the
\* range is out of bounds or does not lie on character boundaries.
str_slice(s, from, to) ==
    IF from <= to /\ to <= Len(s)
       /\ is_char_boundary(s, from) /\ is_char_boundary(s, to)
    THEN Some(SubSeq(s, from + 1, to))
    ELSE None

\* str::starts_with: byte-wise, case-sensitive prefix test
starts_with(s, p) ==
    Len(p) <= Len(s) /\ SubSeq(s, 1, Len(p)) = p

(***************************************************************************)
(* Lines of input, as token sequences.  The empty line is <<>>.            *)
(***************************************************************************)
NoVal == [ty |-> "none", s |-> <<>>]
StrVal(s) == [ty |-> "str", s |-> s]
NumVal(s) == [ty |-> "num", s |-> s]
LBrace == [t |-> "{", k |-> "", v |-> NoVal]
RBrace == [t |-> "}", k |-> "", v |-> NoVal]
Junk == [t |-> "junk", k |-> "bad", v |-> NoVal]
Field(k, v) == [t |-> "field", k |-> k, v |-> v]

\* the level names as bytes: "info", "warn", "notice"
LvInfo == <<105, 110, 102, 111>>
LvWarn == <<119, 97, 114, 110>>
LvNotice == <<110, 111, 116, 105, 99, 101>>

EmptyText == <<>>
\* {bad}
BadText == <<LBrace, Junk, RBrace>>
\* {"timestamp": ts, "level": lv, "message": msg}
RecordText(ts, lv, msg) ==
    <<LBrace, Field("timestamp", StrVal(ts)), Field("level", StrVal(lv)),
      Field("message", StrVal(msg)), RBrace>>
\* {"timestamp": ts, "level": "info"}: the required message is missing
NoMessageText ==
    <<LBrace, Field("timestamp", StrVal(CanonicalTs)),
      Field("level", StrVal(LvInfo)), RBrace>>
\* {"timestamp": 42, "level": "info", "message": "hi", "user_id": 42}
NumTsText ==
    <<LBrace, Field("timestamp", NumVal(<<52, 50>>)),
      Field("level", StrVal(LvInfo)), Field("message", StrVal(MsgOther)),
      Field("user_id", NumVal(<<52, 50>>)), RBrace>>
\* a valid record with an extra field
ExtraText ==
    <<LBrace, Field("timestamp", StrVal(CanonicalTs)),
      Field("level", StrVal(LvWarn)), Field("message", StrVal(MsgOther)),
      Field("user_id", NumVal(<<52, 50>>)), RBrace>>

\* the lines the run aggregator is driven with
ProcTexts ==
    { EmptyText, BadText,
      RecordText(CanonicalTs, LvInfo, MsgStart),
      RecordText(CanonicalTs, LvWarn, MsgOther),
      RecordText(ShortTs, LvInfo, MsgStart) }
\* the lines the iterator alone is driven with
IterTexts ==
    { EmptyText, BadText,
      RecordText(CanonicalTs, LvInfo, MsgStart),
      RecordText(ShortTs, LvInfo, MsgOther),
      RecordText(CanonicalTs, LvNotice, MsgOther),
      NoMessageText, NumTsText, ExtraText }

(***************************************************************************)
(* entry.rs: SeverityLevel and LogEntry, and their serde decoding.         *)
(***************************************************************************)
\* the literals #[serde(rename = ...)] gives the variants of SeverityLevel
SeverityLevel ==
    { [lit |-> <<102, 97, 116, 97, 108>>, variant |-> "Fatal"],
      [lit |-> <<101, 114, 114, 111, 114>>, variant |-> "Error"],
      [lit |-> LvWarn, variant |-> "Warn"],
      [lit |-> LvInfo, variant |-> "Info"],
      [lit |-> <<100, 101, 98, 117, 103>>, variant |-> "Debug"],
      [lit |-> <<118, 101, 114, 98, 111, 115, 101>>, variant |-> "Verbose"],
      [lit |-> <<115, 105, 108, 108, 121>>, variant |-> "Silly"] }

\* the struct LogEntry
LogEntry(timestamp, level, message, extra) ==
    [timestamp |-> timestamp, level |-> level, message |-> message,
     extra |-> extra]
\* the entry field of a LineItem or a Result that holds no LogEntry
NoEntry == LogEntry(<<>>, "", <<>>, {})

Ok(entry) == [ok |-> TRUE, entry |-> entry, err |-> ""]
Err(e) == [ok |-> FALSE, entry |-> NoEntry, err |-> e]

\* the end of the derived visit_map: every required field must have been seen
missing_fields(acc) ==
    IF acc.timestamp = None THEN Err("missing field timestamp")
    ELSE IF acc.level = None THEN Err("missing field level")
    ELSE IF acc.message = None THEN Err("missing field message")
    ELSE Ok(LogEntry(acc.timestamp[1], acc.level[1], acc.message[1],
                     acc.extra))

\* the derived Deserialize of LogEntry, reading the object's members from
\* token i on: a known key is decoded into its field as it is met, every other
\* key is collected for the flattened map.
RECURSIVE visit_map(_, _, _)
visit_map(line, i, acc) ==
    IF i > Len(line) THEN Err("EOF while parsing an object")
    ELSE LET tok == line[i] IN
      IF tok.t = "}" THEN
        LET r == missing_fields(acc) IN
        IF r.ok /\ i < Len(line) THEN Err("trailing characters") ELSE r
      ELSE IF tok.t # "field" THEN Err("key must be a string")
      ELSE IF tok.k = "timestamp" THEN
        IF acc.timestamp # None THEN Err("duplicate field timestamp")
        ELSE IF tok.v.ty # "str" THEN Err("invalid type: expected a string")
        ELSE visit_map(line, i + 1, [acc EXCEPT !.timestamp = Some(tok.v.s)])
      ELSE IF tok.k = "level" THEN
        IF acc.level # None THEN Err("duplicate field level")
        ELSE IF tok.v.ty # "str" THEN Err("invalid type: expected a variant")
        ELSE IF ~ \E l \in SeverityLevel : l.lit = tok.v.s
             THEN Err("unknown variant")
        ELSE visit_map(line, i + 1,
               [acc EXCEPT !.level =
                  Some((CHOOSE l \in SeverityLevel : l.lit = tok.v.s).variant)])
      ELSE IF tok.k = "message" THEN
        IF acc.message # None THEN Err("duplicate field message")
        ELSE IF tok.v.ty # "str" THEN Err("invalid type: expected a string")
        ELSE visit_map(line, i + 1, [acc EXCEPT !.message = Some(tok.v.s)])
      ELSE visit_map(line, i + 1,
             [acc EXCEPT !.extra =
                {p \in acc.extra : p.k # tok.k} \cup {[k |-> tok.k, v |-> tok.v]}])

\* serde_json::from_str::<LogEntry>(&line)
from_str(line) ==
    IF Len(line) = 0 THEN Err("EOF while parsing a value")
    ELSE IF line[1].t # "{" THEN Err("expected value")
    ELSE visit_map(line, 2,
           [timestamp |-> None, level |-> None, message |-> None, extra |-> {}])

\* timestamp_short that slices one byte early: &self.timestamp[10..22]
timestamp_short_from_10(entry) == str_slice(entry.timestamp, 10, 22)

\* LogEntry::timestamp_short: &self.timestamp[11..23]; None is the panic
timestamp_short(entry) == str_slice(entry.timestamp, 11, 23)

(***************************************************************************)
(* iterator.rs: LineItem and LogEntryIterator.                             *)
(***************************************************************************)
Entry(entry) == [kind |-> "Entry", line_no |-> 0, entry |-> entry, err |-> ""]
EmptyLine(n) == [kind |-> "EmptyLine", line_no |-> n, entry |-> NoEntry, err |-> ""]
ReadError(n, e) == [kind |-> "ReadError", line_no |-> n, entry |-> NoEntry, err |-> e]
ParseError(n, e) == [kind |-> "ParseError", line_no |-> n, entry |-> NoEntry, err |-> e]

\* what Lines<B>::next() yields: a line, or a read fault
OkLine(text) == [ok |-> TRUE, text |-> text, err |-> ""]
ErrLine(e) == [ok |-> FALSE, text |-> <<>>, err |-> e]

VARIABLES
    lines,      \* Lines<B>: the items the line source has yielded so far
    reads,      \* the number of calls of lines.next() made so far
    line_no,    \* LogEntryIterator.line_no
    is_error,   \* LogEntryIterator.is_error
    item,       \* the value the last call of next() returned
    returned    \* every value next() has returned, in order

iter_vars == <<lines, reads, line_no, is_error, item, returned>>

\* LogEntryIterator::from_buf_reader
from_buf_reader ==
    /\ lines = <<>>
    /\ reads = 0
    /\ line_no = 0
    /\ is_error = FALSE
    /\ item = None
    /\ returned = <<>>

\* next() returns r
returns(r) ==
    /\ item' = r
    /\ returned' = Append(returned, r)

\* classify without the is_empty test: every line goes to the decoder
classify_no_empty_check(line, n) ==
    LET r == from_str(line) IN
    IF r.ok THEN Entry(r.entry) ELSE ParseError(n, r.err)

\* the arm Some(Ok(line)) applied to one line
classify(line, n) ==
    IF Len(line) = 0 THEN EmptyLine(n)
    ELSE LET r == from_str(line) IN
         IF r.ok THEN Entry(r.entry) ELSE ParseError(n, r.err)

\* next(), is_error set: return None at once
next_latched ==
    /\ is_error
    /\ returns(None)
    /\ UNCHANGED <<lines, reads, line_no, is_error>>

\* next_ok that skips an empty line and goes on to the line after it
next_ok_skips_empty(texts) ==
    /\ ~is_error
    /\ Len(lines) < MaxLines
    /\ \E text \in texts :
         IF text = EmptyText /\ Len(lines) + 1 < MaxLines
         THEN \E t2 \in texts \ {EmptyText} :
                /\ lines' = lines \o <<OkLine(text), OkLine(t2)>>
                /\ reads' = reads + 2
                /\ line_no' = line_no + 2
                /\ returns(Some(classify(t2, line_no + 2)))
         ELSE /\ lines' = Append(lines, OkLine(text))
              /\ reads' = reads + 1
              /\ line_no' = line_no + 1
              /\ returns(Some(classify(text, line_no + 1)))
    /\ UNCHANGED is_error

\* next_ok that counts a line only when it is not a record
next_ok_counts_no_entries(texts) ==
    /\ ~is_error
    /\ Len(lines) < MaxLines
    /\ \E text \in texts :
         LET n == IF classify(text, 0).kind = "Entry"
                  THEN line_no ELSE line_no + 1 IN
         /\ lines' = Append(lines, OkLine(text))
         /\ reads' = reads + 1
         /\ line_no' = n
         /\ returns(Some(classify(text, n)))
    /\ UNCHANGED is_error

\* next(), the source yields Some(Ok(line))
next_ok(texts) ==
    /\ ~is_error
    /\ Len(lines) < MaxLines
    /\ \E text \in texts :
         /\ lines' = Append(lines, OkLine(text))
         /\ reads' = reads + 1
         /\ line_no' = line_no + 1
         /\ returns(Some(classify(text, line_no + 1)))
    /\ UNCHANGED is_error

\* next_err that does not set is_error
next_err_no_latch ==
    /\ ~is_error
    /\ Len(lines) < MaxLines
    /\ lines' = Append(lines, ErrLine("Simulated error"))
    /\ reads' = reads + 1
    /\ line_no' = line_no + 1
    /\ is_error' = FALSE
    /\ returns(Some(ReadError(line_no + 1, "Simulated error")))

\* next(), the source yields Some(Err(e))
next_err ==
    /\ ~is_error
    /\ Len(lines) < MaxLines
    /\ lines' = Append(lines, ErrLine("Simulated error"))
    /\ reads' = reads + 1
    /\ line_no' = line_no + 1
    /\ is_error' = TRUE
    /\ returns(Some(ReadError(line_no + 1, "Simulated error")))

\* next(), the source yields None
next_eof ==
    /\ ~is_error
    /\ reads' = reads + 1
    /\ returns(None)
    /\ UNCHANGED <<lines, line_no, is_error>>

\* LogEntryIterator::next
next(texts) ==
    \/ next_latched
    \/ next_ok(texts)
    \/ next_err
    \/ next_eof

(***************************************************************************)
(* formatter.rs: LogEntryFormatter.  A written line is the record of the    *)
(* format string used (kind) and of the values put into it; styled tells    *)
(* whether ColorFormatImpl wrapped them in colour escapes.                  *)
(***************************************************************************)
OutLine(kind, styled, source, num, ts, tag, msg, desc) ==
    [kind |-> kind, styled |-> styled, source |-> source, num |-> num,
     ts |-> ts, tag |-> tag, msg |-> msg, desc |-> desc]

\* LogEntry::level: the severity of the entry
level(entry) ==
    IF entry.level = "Silly" THEN "Verbose" ELSE entry.level

\* SeverityLevel::as_str: the 3-letter tag of a severity
as_str(sev) ==
    CASE sev = "Fatal" -> "ftl"
      [] sev = "Error" -> "err"
      [] sev = "Warn" -> "wrn"
      [] sev = "Info" -> "inf"
      [] sev = "Debug" -> "dbg"
      [] sev = "Verbose" -> "vrb"
      [] OTHER -> sev

\* format_entry: "{} [{}] {}"; defined when timestamp_short does not panic
format_entry(color, entry) ==
    OutLine("entry", color, "", 0, timestamp_short(entry)[1],
            as_str(level(entry)), entry.message, "")

\* format_empty_lines: "{}: {} empty lines skipped -----------"
format_empty_lines(color, n, source) ==
    OutLine("empty_lines", color, source, n, <<>>, "", <<>>, "")

\* format_read_error: "{}({}): Read error {}"
format_read_error(color, n, source, error) ==
    OutLine("read_error", color, source, n, <<>>, "", <<>>, error)

\* format_parse_error with the format string of format_read_error
format_parse_error_as_read(color, n, source, error) ==
    OutLine("read_error", color, source, n, <<>>, "", <<>>, error)

\* format_parse_error: "{}({}): Parse error {}"
format_parse_error(color, n, source, error) ==
    OutLine("parse_error", color, source, n, <<>>, "", <<>>, error)

\* format_session_start: the session-start marker of an entry
format_session_start(color, entry) ==
    OutLine("session_start", color, "", 0, <<>>, "", <<>>, "")

\* write that puts the new lines before the ones already written
write_front(out, ls) == ls \o out

\* writeln!(w, ...) for each line of ls in turn: the sink gains them at its end
write(out, ls) == out \o ls

(***************************************************************************)
(* ansi.rs and value_printer.rs: ValuePrinter.  A serde_json::Value is a   *)
(* record [t, b, s, items]: s holds the bytes of a string or the decimal   *)
(* text of a number, items the elements of an array (k empty) or the       *)
(* entries of an object in the order of its Map, which is sorted by key.   *)
(* The writer is the Vec<u8> the output is collected in.                   *)
(***************************************************************************)
\* the most elements of an array, or entries of an object, that is printed
MaxLen == 2

Null == [t |-> "null", b |-> FALSE, s |-> <<>>, items |-> <<>>]
Bool(b) == [t |-> "bool", b |-> b, s |-> <<>>, items |-> <<>>]
Number(n) == [t |-> "number", b |-> FALSE, s |-> n, items |-> <<>>]
String(s) == [t |-> "string", b |-> FALSE, s |-> s, items |-> <<>>]
Array(vs) ==
    [t |-> "array", b |-> FALSE, s |-> <<>>,
     items |-> [i \in 1..Len(vs) |-> [k |-> <<>>, v |-> vs[i]]]]
Object(kvs) == [t |-> "object", b |-> FALSE, s |-> <<>>, items |-> kvs]

\* the number 1, the string a, and the string of a, a line feed and b
One == Number(<<49>>)
StrA == String(<<97>>)
StrNl == String(<<97, 10, 98>>)
\* the scalar values
Scalars == {Null, Bool(TRUE), Bool(FALSE), One, StrA, StrNl}
\* the keys a, bc, d, e of the objects, in the order of the Map
Keys == <<<<97>>, <<98, 99>>, <<100>>, <<101>>>>
\* the containers that are nested in other containers
Inner ==
    {Array(<<>>), Array(<<One>>), Array(<<StrNl>>), Array(<<Array(<<One>>)>>),
     Object(<<>>), Object(<<[k |-> Keys[1], v |-> Null]>>),
     Object(<<[k |-> Keys[1], v |-> Array(<<One>>)]>>)}
\* the elements of the containers that hold a container
Elems == {Null, StrA} \cup Inner
\* the arrays and the objects of up to MaxLen members drawn from S
ArraysOf(S) == {Array(vs) : vs \in UNION {[1..m -> S] : m \in 0..MaxLen}}
ObjectsOf(S) ==
    {Object([i \in 1..Len(vs) |-> [k |-> Keys[i], v |-> vs[i]]]) :
       vs \in UNION {[1..m -> S] : m \in 0..MaxLen}}
\* the values that are printed
Values ==
    Scalars \cup ArraysOf(Scalars) \cup ObjectsOf(Scalars)
            \cup ArraysOf(Elems) \cup ObjectsOf(Elems)

\* ValuePrinterConfig
ValuePrinterConfig(color, indent_size, max_width) ==
    [use_color |-> color, indent_size |-> indent_size, max_width |-> max_width]
\* ValuePrinterConfig::default().indent_size and .max_width
DefaultIndentSize == 2
DefaultMaxWidth == 80
\* the configurations a printer is made with
IndentSizes == {DefaultIndentSize, 4}
MaxWidths == {10, 20, DefaultMaxWidth}
Configs ==
    {ValuePrinterConfig(c, i, w) :
       c \in BOOLEAN, i \in IndentSizes, w \in MaxWidths}

\* csi!(): ESC [ m
csi_reset == <<27, 91, 109>>
\* ansi_color!(fg: n): ESC [ 3 8 ; 5 ; n m, n given as its decimal text
ansi_color_fg(n) == <<27, 91, 51, 56, 59, 53, 59>> \o n \o <<109>>

\* ValuePrinter::new
new(config) ==
    [config |-> config,
     key_color |-> IF config.use_color THEN ansi_color_fg(<<51, 51>>) ELSE <<>>,
     string_color |-> IF config.use_color THEN ansi_color_fg(<<50>>) ELSE <<>>,
     number_color |-> IF config.use_color THEN ansi_color_fg(<<49, 49>>) ELSE <<>>,
     boolean_color |-> IF config.use_color THEN ansi_color_fg(<<57>>) ELSE <<>>,
     null_color |-> IF config.use_color THEN ansi_color_fg(<<56>>) ELSE <<>>,
     punctuation_color |-> IF config.use_color THEN ansi_color_fg(<<55>>) ELSE <<>>,
     reset_color |-> IF config.use_color THEN csi_reset ELSE <<>>]

\* the concatenation of the byte strings of ss, in order
RECURSIVE Concat(_)
Concat(ss) == IF ss = <<>> THEN <<>> ELSE Head(ss) \o Concat(Tail(ss))

\* matches!(v, Value::Null | Value::Bool(_) | Value::Number(_) | Value::String(_))
is_simple(v) == v.t \in {"null", "bool", "number", "string"}

\* write_indent: n * indent_size spaces, n being the level
write_indent(p, n) == [i \in 1..(n * p.config.indent_size) |-> 32]

\* should_format_compact_array that also wants fewer than 2 elements
should_format_compact_array_short(arr) ==
    arr = <<>> \/ (Len(arr) < 2 /\ \A i \in 1..Len(arr) : is_simple(arr[i].v))

\* should_format_compact_array
should_format_compact_array(arr) ==
    arr = <<>> \/ \A i \in 1..Len(arr) : is_simple(arr[i].v)

\* estimate_value_length
estimate_value_length(value) ==
    CASE value.t = "null" -> 4
      [] value.t = "bool" -> IF value.b THEN 4 ELSE 5
      [] value.t = "number" -> Len(value.s)
      [] value.t = "string" -> Len(value.s) + 2
      [] value.t = "array" -> Len(value.items) * 10
      [] value.t = "object" -> Len(value.items) * 20

\* the sum of the numbers of ns
RECURSIVE sum(_)
sum(ns) == IF ns = <<>> THEN 0 ELSE Head(ns) + sum(Tail(ns))

\* should_format_compact_object with estimated_len <= max_width
should_format_compact_object_le(p, obj) ==
    IF obj = <<>> THEN TRUE
    ELSE IF ~ \A i \in 1..Len(obj) : is_simple(obj[i].v) THEN FALSE
    ELSE sum([i \in 1..Len(obj) |->
                Len(obj[i].k) + estimate_value_length(obj[i].v) + 5])
           <= p.config.max_width

\* should_format_compact_object with the length of the color codes of a key
\* added to the estimate of each entry
should_format_compact_object_colored(p, obj) ==
    IF obj = <<>> THEN TRUE
    ELSE IF ~ \A i \in 1..Len(obj) : is_simple(obj[i].v) THEN FALSE
    ELSE sum([i \in 1..Len(obj) |->
                Len(p.key_color) + Len(obj[i].k)
                  + estimate_value_length(obj[i].v) + 5])
           < p.config.max_width

\* should_format_compact_object
should_format_compact_object(p, obj) ==
    IF obj = <<>> THEN TRUE
    ELSE IF ~ \A i \in 1..Len(obj) : is_simple(obj[i].v) THEN FALSE
    ELSE sum([i \in 1..Len(obj) |->
                Len(obj[i].k) + estimate_value_length(obj[i].v) + 5])
           < p.config.max_width

RECURSIVE print_value(_, _, _), print_array(_, _, _), print_object(_, _, _)
\* print_value: the bytes written for value at the indentation level indent
print_value(p, value, indent) ==
    CASE value.t = "null" ->
           p.null_color \o <<110, 117, 108, 108>> \o p.reset_color
      [] value.t = "bool" ->
           p.boolean_color
             \o (IF value.b THEN <<116, 114, 117, 101>>
                 ELSE <<102, 97, 108, 115, 101>>)
             \o p.reset_color
      [] value.t = "number" -> p.number_color \o value.s \o p.reset_color
      [] value.t = "string" ->
           p.string_color \o <<34>> \o value.s \o <<34>> \o p.reset_color
      [] value.t = "array" -> print_array(p, value.items, indent)
      [] value.t = "object" -> print_object(p, value.items, indent)

\* print_array
print_array(p, arr, indent) ==
    LET punct(c) == p.punctuation_color \o c \o p.reset_color
        compact == should_format_compact_array(arr)
        element(i) ==
          IF compact
          THEN (IF i > 1 THEN punct(<<44, 32>>) ELSE <<>>)
                 \o print_value(p, arr[i].v, indent)
          ELSE <<10>> \o write_indent(p, indent + 1)
                 \o print_value(p, arr[i].v, indent + 1)
                 \o (IF i < Len(arr) THEN punct(<<44>>) ELSE <<>>)
    IN IF arr = <<>> THEN punct(<<91>>) \o punct(<<93>>)
       ELSE punct(<<91>>)
              \o Concat([i \in 1..Len(arr) |-> element(i)])
              \o (IF compact THEN <<>> ELSE <<10>> \o write_indent(p, indent))
              \o punct(<<93>>)

\* print_object
print_object(p, obj, indent) ==
    LET punct(c) == p.punctuation_color \o c \o p.reset_color
        compact == should_format_compact_object(p, obj)
        key(i) == p.key_color \o obj[i].k \o punct(<<58>>) \o <<32>>
        entry(i) ==
          IF compact
          THEN (IF i > 1 THEN punct(<<44, 32>>) ELSE <<>>)
                 \o key(i) \o print_value(p, obj[i].v, indent)
          ELSE <<10>> \o write_indent(p, indent + 1)
                 \o key(i) \o print_value(p, obj[i].v, indent + 1)
                 \o (IF i < Len(obj) THEN punct(<<44>>) ELSE <<>>)
    IN IF obj = <<>> THEN punct(<<123>>) \o punct(<<125>>)
       ELSE punct(<<123>>)
              \o Concat([i \in 1..Len(obj) |-> entry(i)])
              \o (IF compact THEN <<>> ELSE <<10>> \o write_indent(p, indent))
              \o punct(<<125>>)

VARIABLES
    printer,    \* Option<ValuePrinter>: the printer, once it is made
    value,      \* Option<Value>: the value print was called with
    writer      \* the Vec<u8> print writes to
print_vars == <<printer, value, writer>>

\* before ValuePrinter::new: an empty Vec, no printer
no_printer ==
    /\ printer = None
    /\ value = None
    /\ writer = <<>>

(***************************************************************************)
(* processor.rs: ProcessorOptions and LogEntryProcessor::process_entries.  *)
(***************************************************************************)
\* the source label the caller passes
Source == "test.log"

VARIABLES
    use_color,               \* LogEntryFormatter.use_color
    output,                  \* LogEntryFormatter.writer: the lines written
    skip_empty_lines,        \* ProcessorOptions.skip_empty_lines
    session_start,           \* ProcessorOptions.session_start
    continuous_empty_lines,  \* the local counter of process_entries
    pc,                      \* where process_entries is: "loop", "match", "done"
    status,                  \* "running", or how it ended: "Ok", "Err", "panic"
    consumed,                \* the LineItems the loop has matched, in order
    origin,                  \* for each line of output, the index in consumed
                             \* of the LineItem it was written for
    sink_failed              \* a write to the sink has failed

proc_vars ==
    <<use_color, output, skip_empty_lines, session_start,
      continuous_empty_lines, pc, status, consumed, origin, sink_failed>>
vars == <<iter_vars, proc_vars, print_vars>>

\* the state when process_entries is entered
process_entries_init ==
    /\ use_color \in BOOLEAN
    /\ skip_empty_lines \in BOOLEAN
    /\ session_start \in {None, Some(PrefixS)}
    /\ output = <<>>
    /\ continuous_empty_lines = 0
    /\ pc = "loop"
    /\ status = "running"
    /\ consumed = <<>>
    /\ origin = <<>>
    /\ sink_failed = FALSE

\* one arm of the match has the lines ws to write, in order, and then panics
\* or not: the first k writes succeed; if one fails the ? returns Err.
arm(ws, panics, counter) ==
    \E k \in 0..Len(ws) :
      /\ output' = write(output, SubSeq(ws, 1, k))
      /\ origin' = origin \o [j \in 1..k |-> Len(consumed) + 1]
      /\ consumed' = Append(consumed, item[1])
      /\ continuous_empty_lines' = counter[k + 1]
      /\ IF k < Len(ws)
         THEN pc' = "done" /\ status' = "Err" /\ sink_failed' = TRUE
         ELSE IF panics
         THEN pc' = "done" /\ status' = "panic" /\ UNCHANGED sink_failed
         ELSE pc' = "loop" /\ UNCHANGED <<status, sink_failed>>
      /\ UNCHANGED <<iter_vars, use_color, skip_empty_lines, session_start,
                     print_vars>>

\* for entry in entries: the loop takes the next item, or ends with Ok(())
LoopNext ==
    /\ pc = "loop"
    /\ next(ProcTexts)
    /\ IF item' = None
       THEN pc' = "done" /\ status' = "Ok"
       ELSE pc' = "match" /\ UNCHANGED status
    /\ UNCHANGED <<use_color, output, skip_empty_lines, session_start,
                   continuous_empty_lines, consumed, origin, sink_failed,
                   print_vars>>

\* LineItem::Entry(log_entry) => ...
HandleEntry ==
    /\ pc = "match"
    /\ item[1].kind = "Entry"
    /\ LET log_entry == item[1].entry
           flush == continuous_empty_lines > 1
           w1 == IF flush /\ ~skip_empty_lines
                 THEN <<format_empty_lines(use_color, continuous_empty_lines,
                                           Source)>>
                 ELSE <<>>
           w2 == IF session_start # None
                    /\ starts_with(log_entry.message, session_start[1])
                 THEN <<format_session_start(use_color, log_entry)>>
                 ELSE <<>>
           panics == timestamp_short(log_entry) = None
           w3 == IF panics THEN <<>>
                 ELSE <<format_entry(use_color, log_entry)>>
           ws == w1 \o w2 \o w3
           \* the counter after k successful writes
           counter == [j \in 1..(Len(ws) + 1) |->
                         IF flush /\ j - 1 >= Len(w1)
                         THEN 0 ELSE continuous_empty_lines]
       IN arm(ws, panics, counter)

\* LineItem::EmptyLine(_) => continuous_empty_lines += 1
HandleEmptyLine ==
    /\ pc = "match"
    /\ item[1].kind = "EmptyLine"
    /\ arm(<<>>, FALSE, <<continuous_empty_lines + 1>>)

\* LineItem::ReadError(line_no, e) => fmt.format_read_error(line_no, source, e)?
HandleReadError ==
    /\ pc = "match"
    /\ item[1].kind = "ReadError"
    /\ arm(<<format_read_error(use_color, item[1].line_no, Source,
                               item[1].err)>>,
           FALSE, <<continuous_empty_lines, continuous_empty_lines>>)

\* the ParseError arm with the counter reset that the Entry arm has
HandleParseError_resets_counter ==
    /\ pc = "match"
    /\ item[1].kind = "ParseError"
    /\ arm(<<format_parse_error(use_color, item[1].line_no, Source,
                                item[1].err)>>,
           FALSE, <<continuous_empty_lines, 0>>)

\* LineItem::ParseError(line_no, e) => fmt.format_parse_error(line_no, source, e)?
HandleParseError ==
    /\ pc = "match"
    /\ item[1].kind = "ParseError"
    /\ arm(<<format_parse_error(use_color, item[1].line_no, Source,
                                item[1].err)>>,
           FALSE, <<continuous_empty_lines, continuous_empty_lines>>)

(***************************************************************************)
(* The pipeline of main: process_entries over a LogEntryIterator.          *)
(***************************************************************************)
Init ==
    /\ from_buf_reader
    /\ process_entries_init
    /\ no_printer

Next ==
    \/ LoopNext
    \/ HandleEntry
    \/ HandleEmptyLine
    \/ HandleReadError
    \/ HandleParseError

Spec == Init /\ [][Next]_vars

(***************************************************************************)
(* The iterator on its own, under a caller that keeps calling next().      *)
(***************************************************************************)
CallNext ==
    /\ Len(returned) < MaxCalls
    /\ next(IterTexts)
    /\ UNCHANGED <<proc_vars, print_vars>>

InitIter ==
    /\ from_buf_reader
    /\ use_color = FALSE
    /\ skip_empty_lines = FALSE
    /\ session_start = None
    /\ output = <<>>
    /\ continuous_empty_lines = 0
    /\ pc = "loop"
    /\ status = "running"
    /\ consumed = <<>>
    /\ origin = <<>>
    /\ sink_failed = FALSE
    /\ no_printer

SpecIter == InitIter /\ [][CallNext]_vars

(***************************************************************************)
(* The printer on its own: a caller makes a ValuePrinter and prints one    *)
(* value to an empty Vec, as the tests of value_printer.rs do.             *)
(***************************************************************************)
\* let printer = ValuePrinter::new(config)
New ==
    /\ printer = None
    /\ \E config \in Configs : printer' = Some(new(config))
    /\ UNCHANGED <<iter_vars, proc_vars, value, writer>>

\* printer.print(&mut writer, &value): print_value at indentation level 0
print ==
    /\ printer # None
    /\ value = None
    /\ \E v \in Values :
         /\ value' = Some(v)
         /\ writer' = writer \o print_value(printer[1], v, 0)
    /\ UNCHANGED <<iter_vars, proc_vars, printer>>

InitPrint == InitIter

NextPrint ==
    \/ New
    \/ print

SpecPrint == InitPrint /\ [][NextPrint]_vars

(***************************************************************************)
(* Properties of the iterator, checked under SpecIter.                     *)
(***************************************************************************)
IsSome(r) == r # None
\* the LineItems next() has yielded, in order
Outcomes ==
    LET S == SelectSeq(returned, IsSome) IN [k \in 1..Len(S) |-> S[k][1]]

\* the line is a JSON object that has a string timestamp, a level that is one
\* of the literals of SeverityLevel and a string message
HasStr(text, key) ==
    \E i \in 1..Len(text) :
      text[i].t = "field" /\ text[i].k = key /\ text[i].v.ty = "str"
Decodable(text) ==
    /\ Len(text) >= 2
    /\ text[1].t = "{"
    /\ text[Len(text)].t = "}"
    /\ \A i \in 2..(Len(text) - 1) : text[i].t = "field"
    /\ HasStr(text, "timestamp")
    /\ HasStr(text, "message")
    /\ \E i \in 1..Len(text) :
         /\ text[i].t = "field" /\ text[i].k = "level" /\ text[i].v.ty = "str"
         /\ \E l \in SeverityLevel : l.lit = text[i].v.s
\* the value of the string field key of a decodable line
StrOf(text, key) ==
    text[CHOOSE i \in 1..Len(text) :
           text[i].t = "field" /\ text[i].k = key].v.s
ExpectedKind(text) ==
    IF text = EmptyText THEN "EmptyLine"
    ELSE IF Decodable(text) THEN "Entry" ELSE "ParseError"

NoReadFault == \A k \in 1..Len(lines) : lines[k].ok

\* C1: when the line source reports no read fault, the iterator has yielded
\* exactly one outcome per line read, the k-th outcome being the classification
\* of the k-th line (its kind, and for a record the line's own timestamp and
\* message): no line is dropped, duplicated or reordered.
C1_OneOutcomePerLine ==
    NoReadFault =>
      /\ Len(Outcomes) = Len(lines)
      /\ \A k \in 1..Len(lines) :
           /\ Outcomes[k].kind = ExpectedKind(lines[k].text)
           /\ Outcomes[k].kind = "Entry" =>
                /\ Outcomes[k].entry.timestamp = StrOf(lines[k].text, "timestamp")
                /\ Outcomes[k].entry.message = StrOf(lines[k].text, "message")

\* three lines without a read fault have been read, among them an empty line,
\* a record and an undecodable line
C1_Witness ==
    /\ NoReadFault
    /\ Len(lines) = 3
    /\ Len(Outcomes) = 3
    /\ {Outcomes[k].kind : k \in 1..3} = {"EmptyLine", "Entry", "ParseError"}

HasReturnedReadError ==
    \E k \in 1..Len(returned) :
      returned[k] # None /\ returned[k][1].kind = "ReadError"

\* C2: once next() has returned a ReadError, every later call returns None and
\* does not read the line source; so at most one ReadError is ever returned and
\* no outcome follows it.
C2_ReadErrorEndsSequence ==
    /\ [][HasReturnedReadError =>
            /\ item' = None
            /\ reads' = reads
            /\ lines' = lines]_vars
    /\ [](\A k \in 1..Len(returned) :
            (returned[k] # None /\ returned[k][1].kind = "ReadError") =>
              \A j \in (k + 1)..Len(returned) : returned[j] = None)

\* a ReadError was returned while the source could still yield lines, and the
\* two calls after it returned None
C2_Witness ==
    /\ Len(returned) >= 3
    /\ Len(lines) < MaxLines
    /\ returned[Len(returned) - 2] # None
    /\ returned[Len(returned) - 2][1].kind = "ReadError"
    /\ returned[Len(returned) - 1] = None
    /\ returned[Len(returned)] = None
    /\ reads = Len(lines)

\* C3: an Entry is yielded only for a non-empty line that decodes; an empty
\* line always yields EmptyLine and a non-empty line that does not decode
\* always yields ParseError, whatever was yielded before it.
C3_EntryOnlyForDecodedLine ==
    /\ Len(Outcomes) = Len(lines)
    /\ \A k \in 1..Len(lines) :
         lines[k].ok =>
           /\ Outcomes[k].kind = "Entry" <=>
                (lines[k].text # EmptyText /\ Decodable(lines[k].text))
           /\ Outcomes[k].kind = "EmptyLine" <=> lines[k].text = EmptyText
           /\ Outcomes[k].kind = "ParseError" <=>
                (lines[k].text # EmptyText /\ ~Decodable(lines[k].text))

\* valid, {bad}, valid has given Entry, ParseError(2), Entry
C3_Witness ==
    /\ Len(lines) = 3
    /\ lines[1] = OkLine(RecordText(CanonicalTs, LvInfo, MsgStart))
    /\ lines[2] = OkLine(BadText)
    /\ lines[3] = OkLine(RecordText(CanonicalTs, LvInfo, MsgStart))
    /\ Len(Outcomes) = 3
    /\ Outcomes[1].kind = "Entry"
    /\ Outcomes[2] = ParseError(2, "key must be a string")
    /\ Outcomes[3].kind = "Entry"

\* C4: the line number of every EmptyLine, ParseError and ReadError is the
\* 1-based position of its line among all the lines read, records included,
\* and the counter line_no is the number of lines taken from the source.
C4_LineNumbers ==
    /\ line_no = Len(lines)
    /\ Len(Outcomes) = Len(lines)
    /\ \A k \in 1..Len(Outcomes) :
         Outcomes[k].kind # "Entry" => Outcomes[k].line_no = k

\* an EmptyLine, a ParseError and a ReadError were yielded after a record
C4_Witness ==
    /\ Len(Outcomes) = 4
    /\ Outcomes[1].kind = "Entry"
    /\ {Outcomes[k].kind : k \in 2..4} = {"EmptyLine", "ParseError", "ReadError"}
    /\ Outcomes[4].line_no = 4

\* the line is a JSON object with a string timestamp and a string message whose
\* level is a string that is none of the literals of SeverityLevel
UnknownLevelRecord(text) ==
    /\ Len(text) >= 2
    /\ text[1].t = "{"
    /\ text[Len(text)].t = "}"
    /\ \A i \in 2..(Len(text) - 1) : text[i].t = "field"
    /\ HasStr(text, "timestamp")
    /\ HasStr(text, "message")
    /\ \E i \in 1..Len(text) :
         /\ text[i].t = "field" /\ text[i].k = "level" /\ text[i].v.ty = "str"
         /\ ~ \E l \in SeverityLevel : l.lit = text[i].v.s

\* C11: a line that is a JSON object with a string timestamp, a string message
\* and a level string outside the recognized set is classified as a Record
\* (severity Other, the raw string kept), with its timestamp and message, and
\* not as a ParseError.
C11_UnknownLevelIsRecord ==
    \A k \in 1..Len(Outcomes) :
      (lines[k].ok /\ UnknownLevelRecord(lines[k].text)) =>
        /\ Outcomes[k].kind # "ParseError"
        /\ Outcomes[k].kind = "Entry"
        /\ Outcomes[k].entry.timestamp = StrOf(lines[k].text, "timestamp")
        /\ Outcomes[k].entry.message = StrOf(lines[k].text, "message")

(***************************************************************************)
(* Properties of process_entries, checked under Spec.                      *)
(***************************************************************************)
\* the lines of output written for the n-th consumed item, in order
Mine(n) ==
    LET idx == {i \in 1..Len(output) : origin[i] = n}
        first == IF idx = {} THEN 1
                 ELSE CHOOSE i \in idx : \A j \in idx : i <= j
    IN [k \in 1..Cardinality(idx) |-> output[first + k - 1]]

\* the arm of the n-th consumed item ran to its end: no write of it failed
\* (the only arm a failed write can cut short is the last one)
Completed(n) == n < Len(consumed) \/ status # "Err"

\* the number of EmptyLine items directly before the n-th consumed item
RECURSIVE RunBefore(_)
RunBefore(n) ==
    IF n > 1 /\ consumed[n - 1].kind = "EmptyLine"
    THEN 1 + RunBefore(n - 1) ELSE 0

\* only records and empty lines have been consumed, and no arm was cut short
RecordsAndEmptyLinesOnly ==
    /\ status \in {"running", "Ok"}
    /\ \A k \in 1..Len(consumed) : consumed[k].kind \in {"Entry", "EmptyLine"}

RenderedKinds == {"entry", "read_error", "parse_error"}
KindOfLine(it) ==
    CASE it.kind = "Entry" -> "entry"
      [] it.kind = "ReadError" -> "read_error"
      [] it.kind = "ParseError" -> "parse_error"
      [] OTHER -> "none"

\* C5: the rendered lines of the Entry, ParseError and ReadError items are
\* written in the order of the items: every line of output belongs to an item
\* not earlier than the item of the line before it, each non-empty item has at
\* most one rendered line, of its own kind and content, and no item is passed
\* over while a later one is written.
C5_OutputInInputOrder ==
    /\ Len(origin) = Len(output)
    /\ \A i \in 1..Len(output) :
         /\ origin[i] \in 1..Len(consumed)
         /\ i > 1 => origin[i - 1] <= origin[i]
         /\ output[i].kind \in RenderedKinds =>
              LET it == consumed[origin[i]] IN
              /\ output[i].kind = KindOfLine(it)
              /\ i > 1 /\ output[i - 1].kind \in RenderedKinds =>
                   origin[i - 1] < origin[i]
              /\ it.kind = "Entry" =>
                   /\ output[i].msg = it.entry.message
                   /\ Some(output[i].ts) = timestamp_short(it.entry)
              /\ it.kind # "Entry" =>
                   /\ output[i].num = it.line_no
                   /\ output[i].desc = it.err
    /\ \A n \in 1..(Len(consumed) - 1) :
         consumed[n].kind # "EmptyLine" =>
           \E i \in 1..Len(output) :
             origin[i] = n /\ output[i].kind = KindOfLine(consumed[n])

\* a record, a parse fault and a read fault were written one after the other
C5_Witness ==
    /\ Len(consumed) >= 3
    /\ \E i \in 1..(Len(output) - 2) :
         /\ output[i].kind = "entry" /\ origin[i] = 1
         /\ output[i + 1].kind = "parse_error" /\ origin[i + 1] = 2
         /\ output[i + 2].kind = "read_error" /\ origin[i + 2] = 3

\* C6: an Entry consumed right after a run of n >= 2 EmptyLines writes, when
\* skip_empty_lines is false, exactly one summary line, with the count n, before
\* the record's line; when skip_empty_lines is true it writes no summary line
\* and the record's line is still written.  Stated for the inputs that hold
\* records and empty lines only, and for an arm that ran to its end.
C6_SummaryCountsRun ==
    LET n == Len(consumed) IN
    (/\ pc = "loop"
     /\ RecordsAndEmptyLinesOnly
     /\ n >= 1
     /\ consumed[n].kind = "Entry"
     /\ RunBefore(n) >= 2) =>
       LET mine == Mine(n)
           sums == {k \in 1..Len(mine) : mine[k].kind = "empty_lines"}
       IN /\ Len(mine) >= 1
          /\ mine[Len(mine)].kind = "entry"
          /\ IF skip_empty_lines
             THEN sums = {}
             ELSE /\ sums = {1}
                  /\ mine[1] = format_empty_lines(use_color, RunBefore(n), Source)

\* C7: a summary line is written only when at least 2 EmptyLine items directly
\* precede the item being processed: a run of 0 or 1 gives no summary line.
\* Stated for the inputs that hold records and empty lines only.
C7_NoSummaryForShortRun ==
    RecordsAndEmptyLinesOnly =>
    \A i \in 1..Len(output) :
      output[i].kind = "empty_lines" => RunBefore(origin[i]) >= 2

\* C8: every ParseError and ReadError consumed is written as exactly one line,
\* "<source>(<line_no>): Parse error <description>" or
\* "<source>(<line_no>): Read error <description>", with its own line number
\* and description; the one exception is the item whose write failed, and then
\* process_entries returned the sink's error.
C8_FaultsAreWritten ==
    /\ \A n \in 1..Len(consumed) :
         (consumed[n].kind \in {"ParseError", "ReadError"} /\ Completed(n)) =>
           Mine(n) = <<OutLine(KindOfLine(consumed[n]), use_color, Source,
                               consumed[n].line_no, <<>>, "", <<>>,
                               consumed[n].err)>>
    /\ status = "Err" <=> sink_failed

\* a parse fault and a read fault, on lines 2 and 3, were consumed and written
C8_Witness ==
    /\ Len(consumed) = 3
    /\ consumed[2].kind = "ParseError"
    /\ consumed[3].kind = "ReadError"
    /\ pc = "loop"
    /\ \E i \in 1..(Len(output) - 1) :
         /\ output[i].kind = "parse_error" /\ output[i].num = 2
         /\ output[i + 1].kind = "read_error" /\ output[i + 1].num = 3

\* C9: process_entries ends otherwise than with Ok only when a write to the
\* sink failed: if no write failed, it returns Ok and has consumed every item
\* the iterator yielded.
C9_OnlySinkFailureAborts ==
    (pc = "done" /\ ~sink_failed) =>
      /\ status = "Ok"
      /\ consumed = Outcomes

\* C10: with a session_start prefix configured, exactly the Records whose
\* message starts with the prefix get a session-start marker, written directly
\* before the record's line and after the summary line, if any; no other item
\* gets a marker, and none is written when no prefix is configured.
C10_SessionMarker ==
    \A n \in 1..Len(consumed) :
      Completed(n) =>
        LET mine == Mine(n)
            marks == {k \in 1..Len(mine) : mine[k].kind = "session_start"}
            it == consumed[n]
        IN IF /\ it.kind = "Entry"
              /\ session_start # None
              /\ starts_with(it.entry.message, session_start[1])
           THEN /\ Len(mine) >= 2
                /\ mine[Len(mine)].kind = "entry"
                /\ marks = {Len(mine) - 1}
                /\ Len(mine) = 3 => mine[1].kind = "empty_lines"
           ELSE marks = {}

\* the 3-letter tag of each severity a record can be decoded with
TagOf(variant) ==
    CASE variant = "Fatal" -> "ftl"
      [] variant = "Error" -> "err"
      [] variant = "Warn" -> "wrn"
      [] variant = "Info" -> "inf"
      [] variant = "Debug" -> "dbg"
      [] variant \in {"Verbose", "Silly"} -> "vrb"

\* the timestamp has the shape YYYY-MM-DDTHH:MM:SS.mmmZ: 24 bytes, ASCII
Canonical24(ts) ==
    /\ Len(ts) = 24
    /\ \A i \in 1..24 : ts[i] < 128
    /\ ts[11] = 84
    /\ ts[24] = 90

\* C12: with color disabled, every consumed Record whose timestamp has the
\* canonical 24-byte shape is written as exactly one line
\* "<bytes 11..23 of the timestamp> [<tag>] <message>", the tag being the
\* 3-letter code of its severity and the message unchanged (the one exception
\* is a record whose arm was cut short by a failed write).
C12_RecordLine ==
    ~use_color =>
      \A n \in 1..Len(consumed) :
        (/\ consumed[n].kind = "Entry"
         /\ Canonical24(consumed[n].entry.timestamp)
         /\ Completed(n)) =>
          LET e == consumed[n].entry
              recs == SelectSeq(Mine(n), LAMBDA l : l.kind = "entry")
          IN recs = <<OutLine("entry", FALSE, "",  0,
                              [i \in 1..12 |-> e.timestamp[11 + i]],
                              TagOf(e.level), e.message, "")>>

\* two records of different severity were written without color
C12_Witness ==
    /\ ~use_color
    /\ pc = "loop"
    /\ Len(consumed) = 2
    /\ consumed[1].kind = "Entry" /\ consumed[1].entry.level = "Info"
    /\ consumed[2].kind = "Entry" /\ consumed[2].entry.level = "Warn"
    /\ Len(output) = 2
    /\ output[1].tag = "inf" /\ output[2].tag = "wrn"
    /\ output[1].ts = <<49, 50, 58, 51, 52, 58, 53, 54, 46, 49, 50, 51>>

\* C15: right after an Entry has been handled the empty-line counter is 0,
\* whatever it was before and whatever skip_empty_lines is.
C15_CounterResetAtRecord ==
    (/\ pc = "loop"
     /\ Len(consumed) >= 1
     /\ consumed[Len(consumed)].kind = "Entry") =>
       continuous_empty_lines = 0

\* the fault line of the item in hand
FaultLine ==
    OutLine(KindOfLine(item[1]), use_color, Source, item[1].line_no,
            <<>>, "", <<>>, item[1].err)

\* C16: handling a ParseError or a ReadError leaves the empty-line counter as
\* it was and writes nothing but the fault's own line (nothing at all when
\* that write fails): no summary line.
C16_FaultKeepsCounter ==
    [][(/\ pc = "match"
        /\ item[1].kind \in {"ParseError", "ReadError"}) =>
          /\ continuous_empty_lines' = continuous_empty_lines
          /\ \/ output' = Append(output, FaultLine) /\ ~sink_failed'
             \/ output' = output /\ sink_failed']_vars

\* a parse fault was handled while two empty lines were counted: the counter
\* is still 2 and the only line written is the fault's
C16_Witness ==
    /\ pc = "loop"
    /\ Len(consumed) = 3
    /\ consumed[1].kind = "EmptyLine"
    /\ consumed[2].kind = "EmptyLine"
    /\ consumed[3].kind = "ParseError"
    /\ continuous_empty_lines = 2
    /\ Len(output) = 1
    /\ output[1].kind = "parse_error"

\* C19: a summary line is written only while an Entry is handled, directly
\* before that record's output (its marker, if any, and its line); empty lines
\* still counted when the input ends or a ReadError ends it are not reported,
\* and an input of empty lines only gives no output at all.
C19_SummaryOnlyBeforeRecord ==
    /\ \A i \in 1..Len(output) :
         output[i].kind = "empty_lines" =>
           /\ consumed[origin[i]].kind = "Entry"
           /\ Completed(origin[i]) =>
                \E j \in (i + 1)..Len(output) :
                  /\ origin[j] = origin[i]
                  /\ output[j].kind = "entry"
                  /\ \A m \in (i + 1)..(j - 1) : output[m].kind = "session_start"
    /\ (\A k \in 1..Len(consumed) : consumed[k].kind = "EmptyLine") =>
         output = <<>>

(***************************************************************************)
(* Properties of ValuePrinter, checked under SpecPrint.                    *)
(***************************************************************************)
\* the least index from from on at which s holds the byte c, or Len(s) + 1
IndexFrom(s, from, c) ==
    IF \E i \in from..Len(s) : s[i] = c
    THEN CHOOSE i \in from..Len(s) :
           s[i] = c /\ \A k \in from..(i - 1) : s[k] # c
    ELSE Len(s) + 1

\* s without its escape sequences: each runs from an ESC to the next m
RECURSIVE Plain(_)
Plain(s) ==
    LET esc == IndexFrom(s, 1, 27)
        m == IndexFrom(s, esc + 1, 109)
    IN IF esc > Len(s) THEN s
       ELSE SubSeq(s, 1, esc - 1) \o Plain(SubSeq(s, m + 1, Len(s)))

\* the text of the scalar v: null, true, false, the number, the quoted string
ScalarText(v) ==
    CASE v.t = "null" -> <<110, 117, 108, 108>>
      [] v.t = "bool" /\ v.b -> <<116, 114, 117, 101>>
      [] v.t = "bool" /\ ~v.b -> <<102, 97, 108, 115, 101>>
      [] v.t = "number" -> v.s
      [] v.t = "string" -> <<34>> \o v.s \o <<34>>

IsScalar(v) == v.t \in {"null", "bool", "number", "string"}
AllScalar(items) == \A i \in 1..Len(items) : IsScalar(items[i].v)

\* the key of a member followed by a colon and a space; nothing in an array
KeyText(items, i) ==
    IF items[i].k = <<>> THEN <<>> ELSE items[i].k \o <<58, 32>>

\* the compact layout of the all-scalar members items between open and close:
\* one line, the members separated by a comma and a space
CompactText(open, items, close) ==
    <<open>>
      \o Concat([i \in 1..Len(items) |->
                   (IF i > 1 THEN <<44, 32>> ELSE <<>>)
                     \o KeyText(items, i) \o ScalarText(items[i].v)])
      \o <<close>>

\* the expanded layout of the members items of a top-level container: each
\* member on a line of its own, indented by indent_size spaces, a comma after
\* each but the last, and the closing bracket on a line of its own
ExpandedText(open, items, close) ==
    <<open>>
      \o Concat([i \in 1..Len(items) |->
                   <<10>> \o [j \in 1..printer[1].config.indent_size |-> 32]
                     \o KeyText(items, i)
                     \o Plain(print_value(printer[1], items[i].v, 1))
                     \o (IF i < Len(items) THEN <<44>> ELSE <<>>)])
      \o <<10, close>>

\* an array, or an object, has been printed
PrintedArray == value # None /\ value[1].t = "array"
PrintedObject == value # None /\ value[1].t = "object"

EstimatedWidth(obj) ==
    sum([i \in 1..Len(obj) |->
           Len(obj[i].k) + 5
             + (CASE obj[i].v.t = "null" -> 4
                  [] obj[i].v.t = "bool" -> IF obj[i].v.b THEN 4 ELSE 5
                  [] obj[i].v.t = "number" -> Len(obj[i].v.s)
                  [] obj[i].v.t = "string" -> Len(obj[i].v.s) + 2)])

ObjectIsCompact(obj) ==
    \/ obj = <<>>
    \/ /\ AllScalar(obj)
       /\ EstimatedWidth(obj) < printer[1].config.max_width

\* C14: an object is rendered compact if and only if it is empty, or every
\* value is a scalar and the sum over its entries of key length + estimated
\* value length + 5 is strictly less than max_width; an all-scalar object whose
\* estimate is max_width or more, and an object with a nested container, is
\* rendered expanded, one key per line.
C14_ObjectCompactIffNarrow ==
    PrintedObject =>
      LET obj == value[1].items
          text == Plain(writer)
      IN /\ ObjectIsCompact(obj) <=> text[2] # 10
         /\ IF ObjectIsCompact(obj)
            THEN text = CompactText(123, obj, 125)
            ELSE text = ExpandedText(123, obj, 125)

\* with max_width 10, indent_size 2 and no color, {a: null}, whose estimate is
\* exactly 10, was written expanded
C14_Witness ==
    /\ printer # None
    /\ ~printer[1].config.use_color
    /\ printer[1].config.max_width = 10
    /\ printer[1].config.indent_size = 2
    /\ value = Some(Object(<<[k |-> <<97>>, v |-> Null]>>))
    /\ EstimatedWidth(value[1].items) = 10
    /\ writer = <<123, 10, 32, 32, 97, 58, 32, 110, 117, 108, 108, 10, 125>>

\* C17: the text of an array or object that is rendered in compact layout has
\* no line feed between its opening and its closing bracket, whatever the
\* values of its elements are, strings included.
C17_CompactHasNoNewline ==
    ((PrintedArray /\ (value[1].items = <<>> \/ AllScalar(value[1].items)))
       \/ (PrintedObject /\ ObjectIsCompact(value[1].items))) =>
      \A i \in 1..Len(writer) : writer[i] # 10

\* C18: the output of a printer with use_color = true, with its escape
\* sequences deleted, is the output of a printer with use_color = false and
\* the same indent_size and max_width for the same value.
C18_ColorDoesNotChangeLayout ==
    (printer # None /\ printer[1].config.use_color /\ value # None) =>
      Plain(writer) =
        print_value(new([printer[1].config EXCEPT !.use_color = FALSE]),
                    value[1], 0)

\* a printer with color has written an expanded array that holds a compact
\* one: escape sequences were written, and the first line ends after [
C18_Witness ==
    /\ printer # None
    /\ printer[1].config.use_color
    /\ value = Some(Array(<<Array(<<One>>), StrA>>))
    /\ Len(Plain(writer)) < Len(writer)
    /\ \E i \in 1..Len(writer) : writer[i] = 27
    /\ Plain(writer)[2] = 10

=============================================================================
